---- MODULE Spec2Model ----
(***************************************************************************)
(* Model of the foodgram recipe backend: the short-link codec, the         *)
(* favorites / shopping-cart membership tables, the shopping-list          *)
(* aggregation and the recipe rows they refer to.                          *)
(*                                                                         *)
(* The repository holds two generations of the API code.  `release` says   *)
(* which one is deployed:                                                  *)
(*   "api"     - src/backend/api/*, src/foodgram_backend/recipes/models.py *)
(*   "legacy"  - src/backend/foodgram_backend/*                            *)
(***************************************************************************)
EXTENDS Integers, Sequences, FiniteSets, TLC

VARIABLES
    release,        \* which generation of the code serves the requests
    Recipe,         \* table of recipe rows: id -> row, for the ids that exist
    last_id,        \* the highest recipe id the table's sequence has handed out
    objects,        \* Favorite and ShoppingCart tables: model -> (user, recipe) -> rows
    response,       \* the last HTTP response produced by a handler
    short_link,     \* codec: the token handed to RecipeShortLinkView.get
    recipe_id,      \* codec: the id handed to Recipe._get_short_link, 0 if none
    phase,          \* codec: "encode" | "resolve" | "done" ("idle" elsewhere)
    looked_up,      \* codec: the ids passed to get_object_or_404 (none or one)
    link_writes,    \* history: recipe id -> how often a short_link was generated for it
    pending,        \* add requests in flight: worker -> the request and how far it got
    shopping_list,  \* the lines of the last shopping-list file sent
    User,           \* the users that exist
    Subscriptions,  \* table of subscriptions: (follower, following) -> rows
    retrieved,      \* the last recipe representation a read returned
    listed          \* the recipes the last list request returned

db    == <<Recipe, last_id, objects, link_writes>>
codec == <<short_link, recipe_id, phase, looked_up>>
users == <<User, Subscriptions>>
vars  == <<release, Recipe, last_id, objects, response,
           short_link, recipe_id, phase, looked_up,
           link_writes, pending, shopping_list,
           User, Subscriptions, retrieved, listed>>

Releases == {"api", "legacy"}

----------------------------------------------------------------------------
(* Bounds *)

\* Largest recipe id fed to the encoder.
MaxId == 120
\* Longest token string fed to the resolver.
MaxTokLen == 5
\* Recipe rows 1..MaxStored exist while the codec is exercised.
MaxStored == 12
\* Recipe ids the recipe table's sequence hands out, and the ids requests name.
MaxRecipes == 2
\* Recipe ids 1..MaxRaced are named by the requests served at the same time.
MaxRaced == 1
\* Largest number of recipes created while users are deleted.
MaxLife == 1

Users == {"alice", "bob"}
Models == {"Favorite", "ShoppingCart"}
\* The server processes that serve requests at the same time.
Workers == {"w1", "w2"}
\* The users whose requests are served at the same time.
Racers == {"alice"}
RecipeIds == 1..MaxRecipes

\* Characters tokens are drawn from: alphabet characters that spell the
\* payloads "0" (MA==), "1" (MQ==), "10" (MTA=), "-1" (LTE=) and payloads that
\* are not UTF-8 (MMA= carries the byte 0xC0), the pad, and a character outside
\* the base64 alphabet.
TokenChars == {"M", "Q", "A", "T", "L", "E", "=", "."}

RECURSIVE SeqsUpTo(_, _)
SeqsUpTo(S, n) ==
    IF n = 0 THEN {<<>>}
    ELSE LET shorter == SeqsUpTo(S, n - 1)
         IN  shorter \cup {Append(s, c) : s \in {t \in shorter : Len(t) = n - 1}, c \in S}

Tokens == SeqsUpTo(TokenChars, MaxTokLen) \ {<<>>}

----------------------------------------------------------------------------
(* HTTP responses *)

\* status: HTTP status; key: the key of the JSON body (for a body that is a bare
\* list of messages, a tag of its message; "" for no body); recipe: the recipe
\* the response shows or redirects to, 0 if none.
Resp(status, key, recipe) == [status |-> status, key |-> key, recipe |-> recipe]

NoResponse == Resp(0, "", 0)

\* An add request a worker serves: `pc` is "insert" once its checks have
\* passed and "done" once it is answered, with `response`.  `clean` (history)
\* says that no row of its pair has been deleted since it began.
Flight(pc, model, user, pk, answer, clean) ==
    [pc |-> pc, model |-> model, user |-> user, pk |-> pk,
     response |-> answer, clean |-> clean]

\* Nobody is subscribed to anybody.
NoSubscriptions == [p \in Users \X Users |-> 0]

\* No list request has been answered.
NoListed == <<>>

\* No recipe has been read.
NoRetrieved == [id |-> 0, is_favorited |-> FALSE, is_in_shopping_cart |-> FALSE]

\* No add request is in flight.
NoPending == [w \in Workers |-> Flight("idle", "", "", 0, NoResponse, TRUE)]

----------------------------------------------------------------------------
(* base64.urlsafe_b64encode / urlsafe_b64decode, bytes.decode, str(), int() *)

B64Chars ==
    << "A","B","C","D","E","F","G","H","I","J","K","L","M","N","O","P",
       "Q","R","S","T","U","V","W","X","Y","Z","a","b","c","d","e","f",
       "g","h","i","j","k","l","m","n","o","p","q","r","s","t","u","v",
       "w","x","y","z","0","1","2","3","4","5","6","7","8","9","-","_" >>

B64Pad == "="

\* The 6-bit value of a character after the url-safe translation of
\* urlsafe_b64decode ("-" -> "+", "_" -> "/"); 64 for a character outside the
\* alphabet.  "+" and "/" are themselves characters of the standard alphabet.
b64_value(c) ==
    IF c = "+" THEN 62
    ELSE IF c = "/" THEN 63
    ELSE IF \E i \in 1..64 : B64Chars[i] = c
         THEN (CHOOSE i \in 1..64 : B64Chars[i] = c) - 1
         ELSE 64

b64_char(v) == B64Chars[v + 1]

\* str(n).encode('utf-8') for an integer n: the bytes of its decimal digits.
RECURSIVE digits(_)
digits(n) == IF n < 10 THEN <<48 + n>> ELSE Append(digits(n \div 10), 48 + (n % 10))

str_encode(n) == IF n < 0 THEN <<45>> \o digits(0 - n) ELSE digits(n)

RECURSIVE urlsafe_b64encode(_)
urlsafe_b64encode(bs) ==
    IF Len(bs) = 0 THEN <<>>
    ELSE IF Len(bs) = 1 THEN
        << b64_char(bs[1] \div 4), b64_char((bs[1] % 4) * 16), B64Pad, B64Pad >>
    ELSE IF Len(bs) = 2 THEN
        << b64_char(bs[1] \div 4),
           b64_char(((bs[1] % 4) * 16) + (bs[2] \div 16)),
           b64_char((bs[2] % 16) * 4), B64Pad >>
    ELSE
        << b64_char(bs[1] \div 4),
           b64_char(((bs[1] % 4) * 16) + (bs[2] \div 16)),
           b64_char(((bs[2] % 16) * 4) + (bs[3] \div 64)),
           b64_char(bs[3] % 64) >>
        \o urlsafe_b64encode(SubSeq(bs, 4, Len(bs)))

\* Results of the fallible conversions: err is TRUE for a raised ValueError
\* (binascii.Error and UnicodeDecodeError are subclasses of ValueError).
Ok(v) == [err |-> FALSE, val |-> v]
ValueError == [err |-> TRUE, val |-> <<>>]

\* binascii.a2b_base64 in its default, non-strict mode, as base64.b64decode
\* calls it: characters outside the alphabet are skipped, a pad sequence that
\* completes a quad ends the parse (what follows is ignored), leftover bits of
\* the last data character are dropped.
RECURSIVE a2b_base64(_, _, _, _, _, _)
a2b_base64(s, i, quad_pos, leftchar, pads, out) ==
    IF i > Len(s) THEN
        (IF quad_pos # 0 THEN ValueError ELSE Ok(out))
    ELSE IF s[i] = B64Pad THEN
        (IF quad_pos >= 2 /\ quad_pos + pads + 1 >= 4
         THEN Ok(out)
         ELSE a2b_base64(s, i + 1, quad_pos, leftchar,
                         IF quad_pos >= 2 THEN pads + 1 ELSE pads, out))
    ELSE LET v == b64_value(s[i]) IN
        IF v >= 64 THEN a2b_base64(s, i + 1, quad_pos, leftchar, pads, out)
        ELSE IF quad_pos = 0 THEN a2b_base64(s, i + 1, 1, v, 0, out)
        ELSE IF quad_pos = 1 THEN
            a2b_base64(s, i + 1, 2, v % 16, 0, Append(out, (leftchar * 4) + (v \div 16)))
        ELSE IF quad_pos = 2 THEN
            a2b_base64(s, i + 1, 3, v % 4, 0, Append(out, (leftchar * 16) + (v \div 4)))
        ELSE
            a2b_base64(s, i + 1, 0, 0, 0, Append(out, (leftchar * 64) + v))

urlsafe_b64decode(s) == a2b_base64(s, 1, 0, 0, 0, <<>>)

IsCont(b) == b >= 128 /\ b <= 191

\* bytes.decode('utf-8'): the code points, or ValueError on an invalid sequence
\* (stray continuation byte, overlong form, surrogate, byte above 0xF4,
\* truncated sequence).
RECURSIVE utf8_decode(_, _, _)
utf8_decode(bs, i, out) ==
    IF i > Len(bs) THEN Ok(out)
    ELSE LET b == bs[i]
             has(k) == i + k <= Len(bs)
         IN
        IF b < 128 THEN utf8_decode(bs, i + 1, Append(out, b))
        ELSE IF b >= 194 /\ b <= 223 THEN
            (IF has(1) /\ IsCont(bs[i + 1])
             THEN utf8_decode(bs, i + 2,
                              Append(out, ((b % 32) * 64) + (bs[i + 1] % 64)))
             ELSE ValueError)
        ELSE IF b >= 224 /\ b <= 239 THEN
            (IF has(2) /\ IsCont(bs[i + 1]) /\ IsCont(bs[i + 2])
                /\ (b = 224 => bs[i + 1] >= 160)
                /\ (b = 237 => bs[i + 1] <= 159)
             THEN utf8_decode(bs, i + 3,
                              Append(out, ((b % 16) * 4096) + ((bs[i + 1] % 64) * 64)
                                          + (bs[i + 2] % 64)))
             ELSE ValueError)
        ELSE IF b >= 240 /\ b <= 244 THEN
            (IF has(3) /\ IsCont(bs[i + 1]) /\ IsCont(bs[i + 2]) /\ IsCont(bs[i + 3])
                /\ (b = 240 => bs[i + 1] >= 144)
                /\ (b = 244 => bs[i + 1] <= 143)
             THEN utf8_decode(bs, i + 4,
                              Append(out, ((b % 8) * 262144) + ((bs[i + 1] % 64) * 4096)
                                          + ((bs[i + 2] % 64) * 64) + (bs[i + 3] % 64)))
             ELSE ValueError)
        ELSE ValueError

\* Code points int() strips as white space: C isspace for ASCII (TAB..CR and
\* the blank, not the separators 0x1C..0x1F) and the Unicode white space above
\* ASCII, which int() first turns into blanks.
IsSpace(c) ==
    \/ c \in 9..13 \/ c = 32 \/ c = 133 \/ c = 160 \/ c = 5760
    \/ c \in 8192..8202 \/ c \in {8232, 8233, 8239, 8287, 12288}

\* Code points of the digit zero of the decimal-digit blocks int() accepts:
\* ASCII and the blocks below U+0800 (Arabic-Indic, Extended Arabic-Indic, NKo).
\* Tokens of TokenChars decode to no code point at or above U+0800.
DecimalZeros == {48, 1632, 1776, 1984}

IsDigit(c) == \E z \in DecimalZeros : c >= z /\ c <= z + 9
DigitValue(c) == c - (CHOOSE z \in DecimalZeros : c >= z /\ c <= z + 9)

RECURSIVE lstrip(_)
lstrip(cs) == IF Len(cs) > 0 /\ IsSpace(cs[1]) THEN lstrip(Tail(cs)) ELSE cs
RECURSIVE rstrip(_)
rstrip(cs) ==
    IF Len(cs) > 0 /\ IsSpace(cs[Len(cs)]) THEN rstrip(SubSeq(cs, 1, Len(cs) - 1)) ELSE cs

\* The digits-and-underscores part of an int() literal: starts and ends with a
\* digit, underscores stand singly between digits.
RECURSIVE int_digits(_, _, _)
int_digits(cs, i, acc) ==
    IF i > Len(cs) THEN Ok(acc)
    ELSE IF IsDigit(cs[i]) THEN int_digits(cs, i + 1, (acc * 10) + DigitValue(cs[i]))
    ELSE IF cs[i] = 95 /\ i > 1 /\ i < Len(cs) /\ IsDigit(cs[i - 1]) /\ IsDigit(cs[i + 1])
         THEN int_digits(cs, i + 1, acc)
    ELSE ValueError

\* int(text): white space stripped, an optional sign, then the digits.
int(text) ==
    LET cs   == rstrip(lstrip(text))
        sign == Len(cs) > 0 /\ cs[1] \in {43, 45}
        body == IF sign THEN Tail(cs) ELSE cs
        mag  == IF Len(body) = 0 THEN ValueError ELSE int_digits(body, 1, 0)
    IN  IF mag.err THEN ValueError
        ELSE IF sign /\ cs[1] = 45 THEN Ok(0 - mag.val) ELSE Ok(mag.val)

----------------------------------------------------------------------------
(* Recipe rows and the short-link codec *)

\* Mutant: the token with its padding stripped, as short-link schemes often do.
Recipe_get_short_link_unpadded(id) ==
    SelectSeq(urlsafe_b64encode(str_encode(id)), LAMBDA c : c # B64Pad)

\* Recipe._get_short_link(recipe_id)
Recipe_get_short_link(id) == urlsafe_b64encode(str_encode(id))

\* A row of the recipe table with the rows that hang on it: its tag links and
\* its ingredient lines.  short_link is <<>> while the column is NULL.
RecipeRow(author, name, link, tags, lines) ==
    [author |-> author, name |-> name, short_link |-> link, tags |-> tags,
     ingredients_in |-> lines]

\* Mutant: the view redirects to the id it decoded without looking it up.
RecipeShortLinkView_get_unchecked(token, table) ==
    LET raw  == urlsafe_b64decode(token)
        text == IF raw.err THEN ValueError ELSE utf8_decode(raw.val, 1, <<>>)
        n    == IF text.err THEN ValueError ELSE int(text.val)
    IN  IF n.err THEN [response |-> Resp(400, "error", 0), looked_up |-> {}]
        ELSE [response |-> Resp(302, "", n.val), looked_up |-> {n.val}]

\* RecipeShortLinkView.get(request, short_link) against the recipe table:
\* the three conversions raise ValueError, which the except clause turns into
\* the 400 body {'error': ...}; get_object_or_404 raises Http404, which is
\* neither ValueError nor Recipe.DoesNotExist and leaves the view as a 404.
RecipeShortLinkView_get(token, table) ==
    LET raw  == urlsafe_b64decode(token)
        text == IF raw.err THEN ValueError ELSE utf8_decode(raw.val, 1, <<>>)
        n    == IF text.err THEN ValueError ELSE int(text.val)
    IN  IF n.err THEN [response |-> Resp(400, "error", 0), looked_up |-> {}]
        ELSE IF n.val \in DOMAIN table
             THEN [response |-> Resp(302, "", n.val), looked_up |-> {n.val}]
             ELSE [response |-> Resp(404, "detail", 0), looked_up |-> {n.val}]

----------------------------------------------------------------------------
(* CodecSpec: the codec applied to bounded inputs *)

CodecInit ==
    /\ release = "api"
    /\ Recipe = [r \in 1..MaxStored |->
                    RecipeRow("alice", "soup", Recipe_get_short_link(r), {1},
                              <<[id |-> 1, amount |-> 2]>>)]
    /\ last_id = MaxStored
    /\ objects = [m \in Models |-> [p \in Users \X (1..MaxStored) |-> 0]]
    /\ looked_up = {}
    /\ response = NoResponse
    /\ link_writes = [r \in 1..MaxStored |-> 1]
    /\ pending = NoPending
    /\ shopping_list = <<>>
    /\ User = Users
    /\ Subscriptions = NoSubscriptions
    /\ retrieved = NoRetrieved
    /\ listed = NoListed
    /\ \/ phase = "encode" /\ recipe_id \in 1..MaxId /\ short_link = <<>>
       \/ phase = "resolve" /\ recipe_id = 0 /\ short_link \in Tokens

\* The token of recipe_id is computed.
Encode ==
    /\ phase = "encode"
    /\ short_link' = Recipe_get_short_link(recipe_id)
    /\ phase' = "resolve"
    /\ UNCHANGED <<release, db, response, recipe_id, looked_up, pending, shopping_list, users, retrieved, listed>>

\* GET /s/{short_link}
Resolve ==
    /\ phase = "resolve"
    /\ LET r == RecipeShortLinkView_get(short_link, Recipe)
       IN  response' = r.response /\ looked_up' = r.looked_up
    /\ phase' = "done"
    /\ UNCHANGED <<release, db, short_link, recipe_id, pending, shopping_list, users, retrieved, listed>>

CodecNext == Encode \/ Resolve

CodecSpec == CodecInit /\ [][CodecNext]_vars

----------------------------------------------------------------------------
(* Ingredients and recipes *)

\* The ingredient catalogue: id -> (name, measurement unit).
Ingredient ==
    << [name |-> "egg",   measurement_unit |-> "pc"],
       [name |-> "flour", measurement_unit |-> "g"],
       [name |-> "flour", measurement_unit |-> "kg"] >>

\* An ingredient line of a recipe payload: ingredient id and amount.
Line(id, amount) == [id |-> id, amount |-> amount]

\* Mutant: a save that generates the short_link whether or not the row has one.
Recipe_save_always(rel, id, row) ==
    IF rel = "api"
    THEN [row |-> [row EXCEPT !.short_link = Recipe_get_short_link(id)], generated |-> 1]
    ELSE [row |-> row, generated |-> 0]

\* Recipe.save: the row stored for the instance `row` and how often a
\* short_link was generated.  The api release generates the short_link of an
\* instance that has none; the legacy model has no save of its own.
Recipe_save(rel, id, row) ==
    IF rel = "api" /\ row.short_link = <<>>
    THEN [row |-> [row EXCEPT !.short_link = Recipe_get_short_link(id)], generated |-> 1]
    ELSE [row |-> row, generated |-> 0]

\* The tags that exist.
Tag == {1, 2}

\* The body of a recipe write: a record of the fields it carries.
Data(tags, ingredients) == [name |-> "soup", tags |-> tags, ingredients |-> ingredients]

\* data.get(key): the empty sequence stands for None, which is as false as
\* an empty list.
data_get(data, key) == IF key \in DOMAIN data THEN data[key] ELSE <<>>

\* len(value) != len(set(value))
has_duplicates(value) ==
    \E i, j \in 1..Len(value) : i < j /\ value[i] = value[j]

\* [ingredient['id'] for ingredient in ingredients]
ingredient_ids(ingredients) == [k \in 1..Len(ingredients) |-> ingredients[k].id]

\* The fields of the serializer: a field the request must carry and does not
\* ("required"), or one that names a row that does not exist; "" if neither.
WriteRecipeSerializer_fields(data, partial) ==
    IF ~partial /\ "name" \notin DOMAIN data THEN "name"
    ELSE IF ~partial /\ "ingredients" \notin DOMAIN data THEN "ingredients"
    ELSE IF ~partial /\ "tags" \notin DOMAIN data THEN "tags"
    ELSE IF \E k \in 1..Len(data_get(data, "ingredients")) :
                data.ingredients[k].id \notin DOMAIN Ingredient THEN "ingredients"
    ELSE IF \E k \in 1..Len(data_get(data, "tags")) : data.tags[k] \notin Tag THEN "tags"
    ELSE ""

\* Mutant: validate looks only at the fields the request carries.
WriteRecipeSerializer_validate_carried(data) ==
    IF "tags" \in DOMAIN data /\ data.tags = <<>> THEN "tags_empty"
    ELSE IF has_duplicates(data_get(data, "tags")) THEN "tags_repeat"
    ELSE IF "ingredients" \in DOMAIN data /\ data.ingredients = <<>>
         THEN "ingredients_empty"
    ELSE IF has_duplicates(ingredient_ids(data_get(data, "ingredients")))
         THEN "ingredients_repeat"
    ELSE ""

\* WriteRecipeSerializer.validate of the api release: the message of its
\* ValidationError, "" if it raises none.
WriteRecipeSerializer_validate(data) ==
    LET tags == data_get(data, "tags")
        ingredients == data_get(data, "ingredients")
    IN  IF tags = <<>> THEN "tags_empty"
        ELSE IF has_duplicates(tags) THEN "tags_repeat"
        ELSE IF ingredients = <<>> THEN "ingredients_empty"
        ELSE IF has_duplicates(tags) \/ has_duplicates(ingredient_ids(ingredients))
             THEN "ingredients_repeat"
        ELSE ""

\* WriteRecipeSerializer.validate_tags of the legacy release.
validate_tags(value) ==
    IF value = <<>> THEN "tags_empty"
    ELSE IF has_duplicates(value) THEN "tags_repeat"
    ELSE ""

\* Mutant: validate_ingredients without the test for repeated ingredients.
validate_ingredients_nonempty(value) ==
    IF value = <<>> THEN "ingredients_empty"
    ELSE ""

\* WriteRecipeSerializer.validate_ingredients of the legacy release.
validate_ingredients(value) ==
    IF value = <<>> THEN "ingredients_empty"
    ELSE IF has_duplicates(ingredient_ids(value)) THEN "ingredients_repeat"
    ELSE ""

\* serializer.is_valid(raise_exception=True) of a recipe write: the fields are
\* converted, each with its validate_<field> when the request carries it
\* (legacy), then validate runs (api).  The first error, "" if there is none.
WriteRecipeSerializer_is_valid(rel, data, partial) ==
    LET e == WriteRecipeSerializer_fields(data, partial)
    IN  IF e # "" THEN e
        ELSE IF rel = "api" THEN WriteRecipeSerializer_validate(data)
        ELSE IF "ingredients" \in DOMAIN data /\ validate_ingredients(data.ingredients) # ""
             THEN validate_ingredients(data.ingredients)
        ELSE IF "tags" \in DOMAIN data THEN validate_tags(data.tags)
        ELSE ""

\* The set of the members of a sequence.
Range(value) == {value[k] : k \in 1..Len(value)}

\* WriteRecipeSerializer.create: Recipe.objects.create saves a new instance
\* with no short_link, then its tag links and ingredient lines are stored.
WriteRecipeSerializer_create(rel, id, user, data) ==
    Recipe_save(rel, id, RecipeRow(user, data.name, <<>>, Range(data.tags),
                                   data.ingredients))

\* Mutant: the writes of a failed attempt stay, as under autocommit.
transaction_atomic_autocommit(row, attempt) == attempt

\* @transaction.atomic around a serializer method: `attempt` is the row as the
\* method left it, how often a short_link was generated and the error it
\* raised; if it raised, its writes are rolled back to `row`.
transaction_atomic(row, attempt) ==
    IF attempt.err # "" THEN [row |-> row, generated |-> 0, err |-> attempt.err]
    ELSE attempt

\* Mutant: an update that adds the lines of the data to the lines the recipe
\* has.
WriteRecipeSerializer_update_append(rel, id, row, data) ==
    LET ingredients == data_get(data, "ingredients")
        tags == data_get(data, "tags")
        name == IF "name" \in DOMAIN data THEN data.name ELSE row.name
        scalars == Recipe_save(rel, id, [row EXCEPT !.name = name])
        saved == Recipe_save(rel, id, [row EXCEPT !.name = name,
                                                  !.tags = Range(tags),
                                                  !.ingredients_in = @ \o ingredients])
    IN  IF rel = "legacy" /\ (ingredients = <<>> \/ tags = <<>>)
        THEN transaction_atomic(row, [row |-> scalars.row, generated |-> scalars.generated,
                                      err |-> "incomplete"])
        ELSE transaction_atomic(row, [row |-> saved.row, generated |-> saved.generated,
                                      err |-> ""])

\* WriteRecipeSerializer.update on data that is_valid let through: the row
\* left, how often a short_link was generated and the error raised ("" if
\* none).  The tag links and ingredient lines are replaced and the instance,
\* with the other fields of the data and short_link as it was read, is saved.
\* The legacy release saves the other fields first and then raises
\* ValidationError if the data carries no tags or no ingredients;
\* transaction.atomic takes the save back.
WriteRecipeSerializer_update(rel, id, row, data) ==
    LET ingredients == data_get(data, "ingredients")
        tags == data_get(data, "tags")
        name == IF "name" \in DOMAIN data THEN data.name ELSE row.name
        scalars == Recipe_save(rel, id, [row EXCEPT !.name = name])
        saved == Recipe_save(rel, id, [row EXCEPT !.name = name,
                                                  !.tags = Range(tags),
                                                  !.ingredients_in = ingredients])
    IN  IF rel = "legacy" /\ (ingredients = <<>> \/ tags = <<>>)
        THEN transaction_atomic(row, [row |-> scalars.row, generated |-> scalars.generated,
                                      err |-> "incomplete"])
        ELSE transaction_atomic(row, [row |-> saved.row, generated |-> saved.generated,
                                      err |-> ""])

\* Mutant: a create that stores the body without validating it.
RecipeViewSet_create_unvalidated(rel, recipes, last, user, data) ==
    LET id == last + 1
        created == Recipe_save(rel, id, RecipeRow(user, data.name, <<>>,
                                                  Range(data_get(data, "tags")),
                                                  data_get(data, "ingredients")))
    IN  [Recipe |-> [r \in DOMAIN recipes \cup {id} |->
                        IF r = id THEN created.row ELSE recipes[r]],
         last_id |-> id, generated |-> created.generated,
         response |-> Resp(201, "id", id)]

\* POST /recipes/ by `user`: the table left, the id given, how often a
\* short_link was generated and the response.
RecipeViewSet_create(rel, recipes, last, user, data) ==
    LET e == WriteRecipeSerializer_is_valid(rel, data, FALSE)
        id == last + 1
        created == WriteRecipeSerializer_create(rel, id, user, data)
    IN  IF e # ""
        THEN [Recipe |-> recipes, last_id |-> last, generated |-> 0,
              response |-> Resp(400, e, 0)]
        ELSE [Recipe |-> [r \in DOMAIN recipes \cup {id} |->
                             IF r = id THEN created.row ELSE recipes[r]],
              last_id |-> id, generated |-> created.generated,
              response |-> Resp(201, "id", id)]

\* PUT (partial = FALSE) or PATCH (partial = TRUE) /recipes/{pk}/ by the
\* author: the table left, how often a short_link was generated and the
\* response.  The view stores whatever the serializer left, also when the
\* serializer raised.
RecipeViewSet_update(rel, recipes, pk, data, partial) ==
    LET e == WriteRecipeSerializer_is_valid(rel, data, partial)
        saved == WriteRecipeSerializer_update(rel, pk, recipes[pk], data)
    IN  IF pk \notin DOMAIN recipes
        THEN [Recipe |-> recipes, generated |-> 0, response |-> Resp(404, "detail", 0)]
        ELSE IF e # ""
        THEN [Recipe |-> recipes, generated |-> 0, response |-> Resp(400, e, 0)]
        ELSE IF saved.err # ""
        THEN [Recipe |-> [recipes EXCEPT ![pk] = saved.row], generated |-> saved.generated,
              response |-> Resp(400, saved.err, 0)]
        ELSE [Recipe |-> [recipes EXCEPT ![pk] = saved.row], generated |-> saved.generated,
              response |-> Resp(200, "id", pk)]

\* Mutant: a get_link that hands out the column as it is stored, generated or
\* not.
RecipeViewSet_get_link_stored(rel, id, row) ==
    [token |-> row.short_link, row |-> row, generated |-> 0]

\* RecipeViewSet.get_link: the token returned, the row left and how often a
\* short_link was generated.  The legacy release generates and saves the
\* short_link of a recipe that has none; the api release returns the column.
RecipeViewSet_get_link(rel, id, row) ==
    IF rel = "legacy" /\ row.short_link = <<>>
    THEN LET token == urlsafe_b64encode(str_encode(id))
             saved == Recipe_save(rel, id, [row EXCEPT !.short_link = token])
         IN  [token |-> token, row |-> saved.row, generated |-> 1 + saved.generated]
    ELSE [token |-> row.short_link, row |-> row, generated |-> 0]

\* on_delete=CASCADE of the recipe foreign key of both list models.
cascade_recipe(objs, pk) ==
    [m \in Models |-> [p \in DOMAIN objs[m] |-> IF p[2] = pk THEN 0 ELSE objs[m][p]]]

----------------------------------------------------------------------------
(* Favorite / ShoppingCart membership *)

EmptyTable == [p \in Users \X RecipeIds |-> 0]

\* model.objects.filter(user=user, recipe=recipe).exists()
exists(table, user, recipe) == table[<<user, recipe>>] > 0

\* Mutant: the insert with no uniqueness constraint on the table.
objects_create_unconstrained(table, user, recipe) ==
    [err |-> FALSE, table |-> [table EXCEPT ![<<user, recipe>>] = @ + 1]]

\* model.objects.create(user=user, recipe=recipe): the unique_recipe_in_<list>
\* constraint makes the insert of a second row for the pair raise
\* IntegrityError.
objects_create(table, user, recipe) ==
    IF table[<<user, recipe>>] > 0
    THEN [err |-> TRUE, table |-> table]
    ELSE [err |-> FALSE, table |-> [table EXCEPT ![<<user, recipe>>] = @ + 1]]

\* Mutant: a delete that filters by the recipe alone.
objects_delete_recipe(table, user, recipe) ==
    [deleted |-> table[<<user, recipe>>],
     table   |-> [p \in DOMAIN table |-> IF p[2] = recipe THEN 0 ELSE table[p]]]

\* model.objects.filter(user=user, recipe=recipe).delete(): the rows deleted and
\* the table left.
objects_delete(table, user, recipe) ==
    [deleted |-> table[<<user, recipe>>],
     table   |-> [table EXCEPT ![<<user, recipe>>] = 0]]

\* Mutant: validate lets a pair that is already in the list through.
CreateSerializer_validate_lax(table, user, recipe) == FALSE

\* FavoriteCreateSerializer.validate / ShoppingCartCreateSerializer.validate:
\* TRUE when ValidationError is raised.
CreateSerializer_validate(table, user, recipe) == exists(table, user, recipe)

\* serializer.is_valid(raise_exception=True) of the api release: the key of the
\* error body, "" when the data is valid.  The recipe field is a primary-key
\* field, which rejects a pk with no row.
CreateSerializer_is_valid(table, recipes, user, pk) ==
    IF pk \notin DOMAIN recipes THEN "recipe"
    ELSE IF CreateSerializer_validate(table, user, pk) THEN "non_field_errors"
    ELSE ""

\* The checks of the legacy add_to_list before its insert: the exists() test
\* and get_object_or_404, whose Http404 becomes ValidationError.
add_to_list_check(table, recipes, user, id) ==
    IF id \in DOMAIN recipes /\ exists(table, user, id) THEN "already"
    ELSE IF id \notin DOMAIN recipes THEN "missing"
    ELSE ""

\* The response of an add whose checks failed with the error `e`.
add_rejected(rel, e) == Resp(400, e, 0)

\* The 400 an add of a pair that is already in the list is answered with.
Conflict == {Resp(400, "non_field_errors", 0), Resp(400, "already", 0)}

\* The checks an add request makes before its insert, ("" when they pass).
add_check(rel, table, recipes, user, pk) ==
    IF rel = "api" THEN CreateSerializer_is_valid(table, recipes, user, pk)
    ELSE add_to_list_check(table, recipes, user, pk)

\* The insert of an add request whose checks passed, and its response: 201
\* with the short form of the recipe, or the IntegrityError nothing catches.
add_insert(table, user, pk) ==
    LET c == objects_create(table, user, pk)
    IN  [table |-> c.table,
         response |-> IF c.err THEN Resp(500, "IntegrityError", 0) ELSE Resp(201, "id", pk)]

\* An add request served without interruption: favorite / shopping_cart of the
\* api release, add_to_list of the legacy release.
add_to_list(rel, table, recipes, user, pk) ==
    LET e == add_check(rel, table, recipes, user, pk)
    IN  IF e # "" THEN [table |-> table, response |-> add_rejected(rel, e)]
        ELSE add_insert(table, user, pk)

\* Mutant: a delete that reports success whether or not a row was deleted.
delete_from_list_silent(table, recipes, user, id) ==
    IF id \notin DOMAIN recipes THEN [table |-> table, response |-> Resp(404, "detail", 0)]
    ELSE [table |-> objects_delete(table, user, id).table, response |-> Resp(204, "", 0)]

\* RecipeViewSet.delete_from_list of the api release.
delete_from_list(table, recipes, user, id) ==
    IF id \notin DOMAIN recipes THEN [table |-> table, response |-> Resp(404, "detail", 0)]
    ELSE LET d == objects_delete(table, user, id)
         IN  IF d.deleted = 0
             THEN [table |-> d.table, response |-> Resp(400, "errors", 0)]
             ELSE [table |-> d.table, response |-> Resp(204, "", 0)]

\* Mutant: a delete that answers 204 and leaves the entry stored.
legacy_delete_from_list_kept(table, recipes, user, id) ==
    IF id \in DOMAIN recipes /\ exists(table, user, id)
    THEN [table |-> table, response |-> Resp(204, "", 0)]
    ELSE IF id \notin DOMAIN recipes
         THEN [table |-> table, response |-> Resp(404, "detail", 0)]
         ELSE [table |-> table, response |-> Resp(400, "errors", 0)]

\* RecipeViewSet.delete_from_list of the legacy release.
legacy_delete_from_list(table, recipes, user, id) ==
    IF id \in DOMAIN recipes /\ exists(table, user, id)
    THEN [table |-> objects_delete(table, user, id).table, response |-> Resp(204, "", 0)]
    ELSE IF id \notin DOMAIN recipes
         THEN [table |-> table, response |-> Resp(404, "detail", 0)]
         ELSE [table |-> table, response |-> Resp(400, "errors", 0)]

----------------------------------------------------------------------------
(* Permissions of the recipe views *)

\* request.user of a request without credentials: not is_authenticated.
AnonymousUser == "anonymous"

\* The users with is_superuser set.
Superusers == {"bob"}

\* rest_framework.permissions.SAFE_METHODS
SAFE_METHODS == {"GET", "HEAD", "OPTIONS"}

\* request.user.is_authenticated
is_authenticated(user) == user # AnonymousUser

\* IsAuthorOrAdminOrReadOnly.has_permission: written out in the legacy
\* release, inherited from IsAuthenticatedOrReadOnly in the api release.
has_permission(method, user) ==
    method \in SAFE_METHODS \/ is_authenticated(user)

\* Mutant: a permission that lets every authenticated user modify an object.
has_object_permission_authenticated(method, user, obj) ==
    method \in SAFE_METHODS \/ is_authenticated(user)

\* IsAuthorOrAdminOrReadOnly.has_object_permission, the same in both
\* releases.
has_object_permission(method, user, obj) ==
    method \in SAFE_METHODS \/ obj.author = user \/ user \in Superusers

\* APIView.permission_denied: NotAuthenticated for a request without
\* credentials, PermissionDenied otherwise.
permission_denied(user) ==
    IF is_authenticated(user) THEN Resp(403, "detail", 0) ELSE Resp(401, "detail", 0)

\* check_permissions, then for a detail route get_object with
\* check_object_permissions: the response of a request that goes no further,
\* NoResponse for one that does.  pk = 0 is a route without an object.
initial(method, recipes, user, pk) ==
    IF ~has_permission(method, user) THEN permission_denied(user)
    ELSE IF pk = 0 THEN NoResponse
    ELSE IF pk \notin DOMAIN recipes THEN Resp(404, "detail", 0)
    ELSE IF ~has_object_permission(method, user, recipes[pk]) THEN permission_denied(user)
    ELSE NoResponse

\* POST /recipes/ as the view set serves it to `user`.
dispatch_create(rel, recipes, last, user, data) ==
    LET denied == initial("POST", recipes, user, 0)
    IN  IF denied # NoResponse
        THEN [Recipe |-> recipes, last_id |-> last, generated |-> 0, response |-> denied]
        ELSE RecipeViewSet_create(rel, recipes, last, user, data)

\* PUT or PATCH /recipes/{pk}/ as the view set serves it to `user`.
dispatch_update(rel, recipes, user, pk, data, partial) ==
    LET denied == initial(IF partial THEN "PATCH" ELSE "PUT", recipes, user, pk)
    IN  IF denied # NoResponse
        THEN [Recipe |-> recipes, generated |-> 0, response |-> denied]
        ELSE RecipeViewSet_update(rel, recipes, pk, data, partial)

\* DELETE /recipes/{pk}/ as the view set serves it to `user`: the recipe
\* goes, and the list entries that refer to it with it.
dispatch_destroy(recipes, objs, user, pk) ==
    LET denied == initial("DELETE", recipes, user, pk)
    IN  IF denied # NoResponse
        THEN [Recipe |-> recipes, objects |-> objs, response |-> denied]
        ELSE [Recipe |-> [r \in DOMAIN recipes \ {pk} |-> recipes[r]],
              objects |-> cascade_recipe(objs, pk),
              response |-> Resp(204, "", 0)]

----------------------------------------------------------------------------
(* Spec: recipes are created and destroyed, users add them to and remove   *)
(* them from their favorites and shopping carts; every request is served   *)
(* without interruption.                                                   *)

\* The users who write recipes where it does not matter who does.
Authors == {"alice"}

\* The payloads recipes are created with.
Payloads == { Data(<<1>>, <<Line(1, 2)>>) }

Init ==
    /\ release \in Releases
    /\ Recipe = <<>>
    /\ last_id = 0
    /\ objects = [m \in Models |-> EmptyTable]
    /\ response = NoResponse
    /\ short_link = <<>>
    /\ recipe_id = 0
    /\ phase = "idle"
    /\ looked_up = {}
    /\ link_writes = <<>>
    /\ pending = NoPending
    /\ shopping_list = <<>>
    /\ User = Users
    /\ Subscriptions = NoSubscriptions
    /\ retrieved = NoRetrieved
    /\ listed = NoListed

\* POST /recipes/
create(user, data) ==
    /\ user \in User \cup {AnonymousUser}
    /\ last_id < MaxRecipes
    /\ LET done == dispatch_create(release, Recipe, last_id, user, data)
       IN  /\ Recipe' = done.Recipe
           /\ link_writes' = [r \in DOMAIN link_writes \cup DOMAIN done.Recipe |->
                                 IF r \in DOMAIN link_writes THEN link_writes[r]
                                 ELSE done.generated]
           /\ last_id' = done.last_id
           /\ response' = done.response
    /\ UNCHANGED <<release, objects, codec, pending, shopping_list, users, retrieved, listed>>

\* DELETE /recipes/{pk}/
destroy(user, pk) ==
    /\ user \in User \cup {AnonymousUser}
    /\ LET done == dispatch_destroy(Recipe, objects, user, pk)
       IN  /\ Recipe' = done.Recipe
           /\ objects' = done.objects
           /\ response' = done.response
    /\ UNCHANGED <<release, last_id, codec, link_writes, pending, shopping_list, users, retrieved, listed>>

\* The tables and the response a list view leaves: only the table of its
\* model is written.
served(objs, model, result) ==
    [objects |-> [objs EXCEPT ![model] = result.table], response |-> result.response]

\* A POST or DELETE on /recipes/{pk}/favorite/ or /recipes/{pk}/shopping_cart/
\* served by the release `rel` on the tables `objs`.
list_request(rel, method, objs, recipes, model, user, pk) ==
    served(objs, model,
           IF method = "POST" THEN add_to_list(rel, objs[model], recipes, user, pk)
           ELSE IF rel = "api" THEN delete_from_list(objs[model], recipes, user, pk)
           ELSE legacy_delete_from_list(objs[model], recipes, user, pk))

\* A request on a list view is served and answered.
Serve(method, model, user, pk) ==
    user \in User /\
    LET done == list_request(release, method, objects, Recipe, model, user, pk)
    IN  /\ objects' = done.objects
        /\ response' = done.response
        /\ UNCHANGED <<release, Recipe, last_id, codec, link_writes, pending, shopping_list, users, retrieved, listed>>

\* POST /recipes/{pk}/favorite/ (api)
favorite(user, pk) ==
    release = "api" /\ Serve("POST", "Favorite", user, pk)

\* DELETE /recipes/{pk}/favorite/ (api)
delete_favorite(user, pk) ==
    release = "api" /\ Serve("DELETE", "Favorite", user, pk)

\* POST /recipes/{pk}/shopping_cart/ (api)
shopping_cart(user, pk) ==
    release = "api" /\ Serve("POST", "ShoppingCart", user, pk)

\* DELETE /recipes/{pk}/shopping_cart/ (api)
delete_shopping_cart(user, pk) ==
    release = "api" /\ Serve("DELETE", "ShoppingCart", user, pk)

\* POST and DELETE /recipes/{pk}/favorite/ (legacy)
legacy_favorite(method, user, pk) ==
    release = "legacy" /\ Serve(method, "Favorite", user, pk)

\* POST and DELETE /recipes/{pk}/shopping_cart/ (legacy)
legacy_shopping_cart(method, user, pk) ==
    release = "legacy" /\ Serve(method, "ShoppingCart", user, pk)

Next ==
    \/ \E u \in Authors, data \in Payloads : create(u, data)
    \/ \E u \in Users, pk \in RecipeIds : destroy(u, pk)
    \/ \E u \in Users, pk \in RecipeIds : favorite(u, pk)
    \/ \E u \in Users, pk \in RecipeIds : delete_favorite(u, pk)
    \/ \E u \in Users, pk \in RecipeIds : shopping_cart(u, pk)
    \/ \E u \in Users, pk \in RecipeIds : delete_shopping_cart(u, pk)
    \/ \E u \in Users, pk \in RecipeIds, method \in {"POST", "DELETE"} :
            legacy_favorite(method, u, pk)
    \/ \E u \in Users, pk \in RecipeIds, method \in {"POST", "DELETE"} :
            legacy_shopping_cart(method, u, pk)

Spec == Init /\ [][Next]_vars

----------------------------------------------------------------------------
(* LinkSpec: recipes are created, updated and destroyed and their short    *)
(* links are asked for; every request is served without interruption.      *)

\* The payloads recipes are updated with.
UpdatePayloads ==
    { Data(<<1>>, <<Line(2, 200)>>), Data(<<2>>, <<Line(2, 100), Line(1, 2)>>) }

\* GET /recipes/{pk}/get-link/
get_link(pk) ==
    /\ IF pk \in DOMAIN Recipe
       THEN LET got == RecipeViewSet_get_link(release, pk, Recipe[pk])
            IN  /\ Recipe' = [Recipe EXCEPT ![pk] = got.row]
                /\ link_writes' = [link_writes EXCEPT ![pk] = @ + got.generated]
                /\ short_link' = got.token
                /\ response' = Resp(200, "short-link", pk)
       ELSE /\ response' = Resp(404, "detail", 0)
            /\ UNCHANGED <<Recipe, link_writes, short_link>>
    /\ UNCHANGED <<release, last_id, objects, recipe_id, phase, looked_up,
                   pending, shopping_list, users, retrieved, listed>>

\* PUT (partial = FALSE) or PATCH (partial = TRUE) /recipes/{pk}/
update(user, pk, data, partial) ==
    /\ user \in User \cup {AnonymousUser}
    /\ LET done == dispatch_update(release, Recipe, user, pk, data, partial)
       IN  /\ Recipe' = done.Recipe
           /\ link_writes' = [r \in DOMAIN link_writes |->
                                 IF r = pk THEN link_writes[r] + done.generated
                                 ELSE link_writes[r]]
           /\ response' = done.response
    /\ UNCHANGED <<release, last_id, objects, codec, pending, shopping_list, users, retrieved, listed>>

LinkNext ==
    \/ \E u \in Authors, data \in Payloads : create(u, data)
    \/ \E u \in Authors, pk \in RecipeIds, data \in UpdatePayloads :
            update(u, pk, data, TRUE)
    \/ \E pk \in RecipeIds : get_link(pk)
    \/ \E u \in Users, pk \in RecipeIds : destroy(u, pk)

LinkSpec == Init /\ [][LinkNext]_vars

----------------------------------------------------------------------------
(* RaceSpec: the workers serve add requests at the same time, the existence *)
(* check and the insert of one request interleaved with the steps of the    *)
(* other; removals are served in one step.                                  *)

\* Every recipe id exists, nothing is in a list, no request is in flight.
RaceInit ==
    /\ release \in Releases
    /\ Recipe = [r \in RecipeIds |->
                    WriteRecipeSerializer_create(release, r, "alice",
                                                 Data(<<1>>, <<Line(1, 2)>>)).row]
    /\ last_id = MaxRecipes
    /\ link_writes = [r \in RecipeIds |->
                         WriteRecipeSerializer_create(release, r, "alice",
                                                      Data(<<1>>, <<Line(1, 2)>>)).generated]
    /\ objects = [m \in Models |-> EmptyTable]
    /\ response = NoResponse
    /\ short_link = <<>>
    /\ recipe_id = 0
    /\ phase = "idle"
    /\ looked_up = {}
    /\ pending = NoPending
    /\ shopping_list = <<>>
    /\ User = Users
    /\ Subscriptions = NoSubscriptions
    /\ retrieved = NoRetrieved
    /\ listed = NoListed

\* A worker takes an add request and runs its checks: is_valid of the api
\* release, the exists() test and get_object_or_404 of the legacy release.
add_begin(w, model, user, pk) ==
    /\ pending[w].pc \in {"idle", "done"}
    /\ LET e == add_check(release, objects[model], Recipe, user, pk)
       IN  IF e # ""
           THEN /\ pending' = [pending EXCEPT ![w] =
                                  Flight("done", model, user, pk, add_rejected(release, e), TRUE)]
                /\ response' = add_rejected(release, e)
           ELSE /\ pending' = [pending EXCEPT ![w] =
                                  Flight("insert", model, user, pk, NoResponse, TRUE)]
                /\ UNCHANGED response
    /\ UNCHANGED <<release, db, codec, shopping_list, users, retrieved, listed>>

\* The worker's request inserts its row: serializer.save() of the api release,
\* model.objects.create of the legacy release.
add_save(w) ==
    /\ pending[w].pc = "insert"
    /\ LET saved == add_insert(objects[pending[w].model], pending[w].user, pending[w].pk)
       IN  /\ objects' = [objects EXCEPT ![pending[w].model] = saved.table]
           /\ pending' = [pending EXCEPT ![w].pc = "done", ![w].response = saved.response]
           /\ response' = saved.response
    /\ UNCHANGED <<release, Recipe, last_id, link_writes, codec, shopping_list, users, retrieved, listed>>

\* A DELETE on a list view, served in one step.
remove(model, user, pk) ==
    /\ LET done == list_request(release, "DELETE", objects, Recipe, model, user, pk)
       IN  /\ objects' = done.objects
           /\ response' = done.response
           /\ pending' = [w \in Workers |->
                            IF /\ done.response.status = 204
                               /\ pending[w].model = model
                               /\ pending[w].user = user
                               /\ pending[w].pk = pk
                            THEN [pending[w] EXCEPT !.clean = FALSE]
                            ELSE pending[w]]
    /\ UNCHANGED <<release, Recipe, last_id, link_writes, codec, shopping_list, users, retrieved, listed>>

RaceNext ==
    \/ \E w \in Workers, m \in Models, u \in Racers, pk \in 1..MaxRaced :
            add_begin(w, m, u, pk)
    \/ \E w \in Workers : add_save(w)
    \/ \E m \in Models, u \in Racers, pk \in 1..MaxRaced : remove(m, u, pk)

RaceSpec == RaceInit /\ [][RaceNext]_vars

----------------------------------------------------------------------------
(* Claims about concurrent adds, checked under RaceSpec *)

\* C9: whenever two workers have answered adds of the same pair to the same
\* list, at least one of which found the pair absent, no row of the pair
\* deleted since either began, one of them answered Created and the other
\* Conflict: neither answered with the fault of the uniqueness constraint.
ConcurrentAddsOneCreated ==
    \A w1, w2 \in Workers :
        ( /\ w1 # w2
          /\ pending[w1].pc = "done" /\ pending[w2].pc = "done"
          /\ pending[w1].model = pending[w2].model
          /\ pending[w1].user = pending[w2].user
          /\ pending[w1].pk = pending[w2].pk
          /\ pending[w1].clean /\ pending[w2].clean
          /\ pending[w1].response.status # 400 )
        => /\ pending[w1].response = Resp(201, "id", pending[w1].pk)
           /\ pending[w2].response \in Conflict

\* C10: in every reachable state each list holds at most one row for each
\* (user, recipe) pair.
AtMostOneEntryPerPair ==
    \A m \in Models : \A p \in DOMAIN objects[m] : objects[m][p] <= 1

\* The second insert of two adds that both found the pair absent has been
\* stopped by the constraint, the row of the first still stored once.
AtMostOneEntryPerPairWitness ==
    \E w \in Workers :
        /\ pending[w].pc = "done"
        /\ pending[w].response = Resp(500, "IntegrityError", 0)
        /\ objects[pending[w].model][<<pending[w].user, pending[w].pk>>] = 1

----------------------------------------------------------------------------
(* The shopping list *)

\* Where the database's ORDER BY puts each ingredient name.
NameRank == [egg |-> 1, flour |-> 2]

\* The separator of a shopping-list line; the source writes U+2014 (em dash).
Dash == "--"

\* user.shopping_cart.all(): the recipes of the user's cart entries.
shopping_cart_all(objs, recipes, user) ==
    {r \in DOMAIN recipes : exists(objs["ShoppingCart"], user, r)}

\* IngredientInRecipe.objects.filter(recipe__in=...): the ingredient lines of
\* the recipes, joined with their ingredient.
IngredientInRecipe_filter(recipes, ids) ==
    UNION { { [recipe |-> r, line |-> n,
               ingredient__name |-> Ingredient[recipes[r].ingredients_in[n].id].name,
               ingredient__measurement_unit |->
                   Ingredient[recipes[r].ingredients_in[n].id].measurement_unit,
               amount |-> recipes[r].ingredients_in[n].amount] :
              n \in 1..Len(recipes[r].ingredients_in) } : r \in ids }

\* Sum('amount') over a set of ingredient lines.
RECURSIVE Sum(_)
Sum(rows) ==
    IF rows = {} THEN 0
    ELSE LET row == CHOOSE x \in rows : TRUE
         IN  row.amount + Sum(rows \ {row})

\* Mutant: no GROUP BY, one item per ingredient line.
values_annotate_ungrouped(rows) ==
    {[ingredient__name |-> row.ingredient__name,
      ingredient__measurement_unit |-> row.ingredient__measurement_unit,
      total_amount |-> row.amount] : row \in rows}

\* .values('ingredient__name', 'ingredient__measurement_unit')
\* .annotate(total_amount=Sum('amount')): GROUP BY the two columns.
values_annotate(rows) ==
    {[ingredient__name |-> row.ingredient__name,
      ingredient__measurement_unit |-> row.ingredient__measurement_unit,
      total_amount |-> Sum({x \in rows :
                               /\ x.ingredient__name = row.ingredient__name
                               /\ x.ingredient__measurement_unit =
                                      row.ingredient__measurement_unit})] :
        row \in rows}

\* .order_by('ingredient__name'): the orders the database may return the
\* items in; items of one name come in an order it does not specify.
RECURSIVE order_by(_)
order_by(items) ==
    IF items = {} THEN {<<>>}
    ELSE LET first == {x \in items : \A y \in items :
                          NameRank[x.ingredient__name] <= NameRank[y.ingredient__name]}
         IN  UNION { {<<x>> \o rest : rest \in order_by(items \ {x})} : x \in first }

\* "\n".join(lines)
RECURSIVE join(_)
join(lines) ==
    IF lines = <<>> THEN ""
    ELSE IF Len(lines) = 1 THEN lines[1]
    ELSE lines[1] \o "\n" \o join(Tail(lines))

\* The line generate_shopping_list formats for an item.
shopping_list_line(name, unit, total) ==
    name \o " (" \o unit \o ") " \o Dash \o " " \o ToString(total)

\* RecipeViewSet.generate_shopping_list
generate_shopping_list(ingredients) ==
    join([k \in 1..Len(ingredients) |->
            shopping_list_line(ingredients[k].ingredient__name,
                               ingredients[k].ingredient__measurement_unit,
                               ingredients[k].total_amount)])

\* Mutant: no test for an empty cart.
RecipeViewSet_download_shopping_cart_blank(objs, recipes, user) ==
    LET shopping_cart_ == shopping_cart_all(objs, recipes, user)
    IN  {[response |-> Resp(200, "shopping_list", 0),
          body |-> generate_shopping_list(ingredients)] :
            ingredients \in order_by(values_annotate(
                                IngredientInRecipe_filter(recipes, shopping_cart_)))}

\* RecipeViewSet.download_shopping_cart: the responses the request may get,
\* one for each order the database may return the items in.
RecipeViewSet_download_shopping_cart(objs, recipes, user) ==
    LET shopping_cart_ == shopping_cart_all(objs, recipes, user)
    IN  IF shopping_cart_ = {}
        THEN {[response |-> Resp(400, "empty", 0), body |-> ""]}
        ELSE {[response |-> Resp(200, "shopping_list", 0),
               body |-> generate_shopping_list(ingredients)] :
                 ingredients \in order_by(values_annotate(
                                     IngredientInRecipe_filter(recipes, shopping_cart_)))}

----------------------------------------------------------------------------
(* CartSpec: recipes are created, users put them into and take them out of *)
(* their shopping carts and download their shopping lists.                 *)

\* The ingredient payloads recipes are created with: flour 200 g and egg
\* 2 pc; flour 100 g; flour 1 kg and egg 3 pc.
CartPayloads ==
    { Data(<<1>>, <<Line(2, 200), Line(1, 2)>>), Data(<<1>>, <<Line(2, 100)>>),
      Data(<<1>>, <<Line(3, 1), Line(1, 3)>>) }

\* Mutant: a download that empties the cart it has listed.
download_shopping_cart_checkout(user) ==
    /\ user \in User
    /\ \E sent \in RecipeViewSet_download_shopping_cart(objects, Recipe, user) :
            /\ response' = sent.response
            /\ shopping_list' = IF sent.response.status = 200 THEN sent.body
                                ELSE shopping_list
    /\ objects' = [objects EXCEPT !["ShoppingCart"] =
                       [p \in DOMAIN @ |-> IF p[1] = user THEN 0 ELSE @[p]]]
    /\ UNCHANGED <<release, Recipe, last_id, link_writes, codec, pending, users, retrieved, listed>>

\* GET /recipes/download_shopping_cart/
download_shopping_cart(user) ==
    /\ user \in User
    /\ \E sent \in RecipeViewSet_download_shopping_cart(objects, Recipe, user) :
            /\ response' = sent.response
            /\ shopping_list' = IF sent.response.status = 200 THEN sent.body
                                ELSE shopping_list
    /\ UNCHANGED <<release, db, codec, pending, users, retrieved, listed>>

CartNext ==
    \/ \E u \in Authors, data \in CartPayloads : create(u, data)
    \/ \E u \in Users, pk \in RecipeIds : shopping_cart(u, pk)
    \/ \E u \in Users, pk \in RecipeIds : delete_shopping_cart(u, pk)
    \/ \E u \in Users : download_shopping_cart(u)

\* The api release starts with no recipes and empty carts.
CartInit == Init /\ release = "api"

CartSpec == CartInit /\ [][CartNext]_vars

----------------------------------------------------------------------------
(* DownloadSpec: both releases; recipes are created, users add them to      *)
(* their favorites and shopping carts and download their shopping lists.    *)

DownloadNext ==
    \/ \E u \in Authors, data \in CartPayloads : last_id < MaxLife /\ create(u, data)
    \/ \E u \in Users, pk \in RecipeIds : favorite(u, pk)
    \/ \E u \in Users, pk \in RecipeIds : shopping_cart(u, pk)
    \/ \E u \in Users, pk \in RecipeIds : legacy_favorite("POST", u, pk)
    \/ \E u \in Users, pk \in RecipeIds : legacy_shopping_cart("POST", u, pk)
    \/ \E u \in Users : download_shopping_cart(u)

DownloadSpec == Init /\ [][DownloadNext]_vars

----------------------------------------------------------------------------
(* FileSpec: both releases; recipes are created and updated, with bodies    *)
(* that carry ingredient lines and bodies that carry none, users put them   *)
(* into their shopping carts and download their shopping lists.             *)

\* Bodies of recipe writes: with lines, with an empty list of lines and, for
\* PATCH, without the list.
FilePayloads ==
    { Data(<<1>>, <<Line(2, 200), Line(1, 2)>>), Data(<<2>>, <<Line(2, 100)>>),
      Data(<<1>>, <<>>), [name |-> "stew", tags |-> <<2>>] }

FileNext ==
    \/ \E u \in Authors, data \in FilePayloads : last_id < MaxLife /\ create(u, data)
    \/ \E u \in Authors, pk \in RecipeIds, data \in FilePayloads, partial \in BOOLEAN :
            update(u, pk, data, partial)
    \/ \E u \in Users, pk \in RecipeIds : shopping_cart(u, pk)
    \/ \E u \in Users, pk \in RecipeIds : legacy_shopping_cart("POST", u, pk)
    \/ \E u \in Users : download_shopping_cart(u)

FileSpec == Init /\ [][FileNext]_vars

\* C29: in every reachable state, every file a download_shopping_cart request
\* can be answered with holds at least one ingredient line: the recipes of a
\* cart that is not empty have ingredient lines, and the file is not blank.
DownloadedFileHasLine ==
    \A u \in Users :
        \A sent \in RecipeViewSet_download_shopping_cart(objects, Recipe, u) :
            sent.response.status = 200 =>
                /\ IngredientInRecipe_filter(Recipe, shopping_cart_all(objects, Recipe, u)) # {}
                /\ sent.body # ""

\* The legacy release has answered a download with the file of a cart whose
\* recipe an update has left with one line.
DownloadedFileHasLineWitness ==
    /\ release = "legacy"
    /\ response = Resp(200, "shopping_list", 0)
    /\ \E u \in Users : shopping_cart_all(objects, Recipe, u) = {1}
    /\ Recipe[1].name = "soup"
    /\ link_writes[1] = 0
    /\ Recipe[1].ingredients_in = <<Line(2, 100)>>
    /\ Recipe[1].tags = {2}

\* C16: a step that answers a download_shopping_cart request, with the file
\* or with the error of an empty cart, leaves the cart entries, the favorites,
\* the recipes with their ingredient lines, the users and the subscriptions
\* as they were.
DownloadIsReadOnly ==
    [][response'.key \in {"shopping_list", "empty"} => UNCHANGED <<db, users>>]_vars

\* A shopping list has been downloaded while recipes are in a cart and among
\* the favorites.
DownloadIsReadOnlyWitness ==
    /\ response = Resp(200, "shopping_list", 0)
    /\ \E u \in Users, pk \in DOMAIN Recipe : objects["ShoppingCart"][<<u, pk>>] = 1
    /\ \E u \in Users, pk \in DOMAIN Recipe : objects["Favorite"][<<u, pk>>] = 1

----------------------------------------------------------------------------
(* Claims about the shopping list, checked under CartSpec *)

\* The (name, unit) pairs of the ingredient lines of the recipes in the
\* user's cart.
CartPairs(user) ==
    UNION { { <<Ingredient[Recipe[r].ingredients_in[n].id].name,
                Ingredient[Recipe[r].ingredients_in[n].id].measurement_unit>> :
              n \in 1..Len(Recipe[r].ingredients_in) } :
            r \in {x \in DOMAIN Recipe : objects["ShoppingCart"][<<user, x>>] > 0} }

\* The amounts of a pair added up over the lines of the recipes in the cart.
RECURSIVE CartTotal(_, _, _, _)
CartTotal(user, pair, r, n) ==
    IF r > last_id THEN 0
    ELSE IF r \notin DOMAIN Recipe \/ objects["ShoppingCart"][<<user, r>>] = 0
              \/ n > Len(Recipe[r].ingredients_in)
         THEN CartTotal(user, pair, r + 1, 1)
         ELSE LET l == Recipe[r].ingredients_in[n]
              IN  (IF <<Ingredient[l.id].name, Ingredient[l.id].measurement_unit>> = pair
                   THEN l.amount ELSE 0) + CartTotal(user, pair, r, n + 1)

\* Every arrangement of the members of a set in a sequence.
RECURSIVE Arrangements(_)
Arrangements(S) ==
    IF S = {} THEN {<<>>}
    ELSE UNION { {<<x>> \o rest : rest \in Arrangements(S \ {x})} : x \in S }

\* The sequences that hold each pair once, names ascending from `rank` on.
RECURSIVE Ascending(_, _)
Ascending(pairs, rank) ==
    IF rank > Cardinality(DOMAIN NameRank) THEN {<<>>}
    ELSE {head \o tail :
            head \in Arrangements({p \in pairs : NameRank[p[1]] = rank}),
            tail \in Ascending(pairs, rank + 1)}

\* The files that hold one line for each pair of the cart, with its total,
\* names ascending.
ExpectedFiles(user) ==
    {join([k \in 1..Len(ps) |-> shopping_list_line(ps[k][1], ps[k][2],
                                                     CartTotal(user, ps[k], 1, 1))]) :
        ps \in Ascending(CartPairs(user), 1)}

\* C5: in every reachable state, a download by a user whose cart is not empty
\* is answered with a file of exactly one line for each distinct (name, unit)
\* pair of the ingredient lines of the cart's recipes, the line's total the
\* sum of the amounts of the pair's lines, the lines ascending by name.
OneLinePerPairSummed ==
    \A u \in Users :
        shopping_cart_all(objects, Recipe, u) # {} =>
            \A sent \in RecipeViewSet_download_shopping_cart(objects, Recipe, u) :
                /\ sent.response = Resp(200, "shopping_list", 0)
                /\ sent.body \in ExpectedFiles(u)

\* The cart of flour 200 g, egg 2 pc and flour 100 g has been downloaded.
OneLinePerPairSummedWitness ==
    /\ response = Resp(200, "shopping_list", 0)
    /\ shopping_list = "egg (pc) -- 2\nflour (g) -- 300"

\* C6: in every reachable state, a download by a user whose cart is empty is
\* answered with the 400 of ValidationError, and no file.
EmptyCartIsError ==
    \A u \in Users :
        shopping_cart_all(objects, Recipe, u) = {} =>
            RecipeViewSet_download_shopping_cart(objects, Recipe, u) =
                {[response |-> Resp(400, "empty", 0), body |-> ""]}

\* A download of an empty cart has been answered with the error while
\* recipes exist.
EmptyCartIsErrorWitness ==
    /\ response = Resp(400, "empty", 0)
    /\ DOMAIN Recipe # {}

\* Where an ordering by measurement unit puts each unit.
UnitRank == [g |-> 1, kg |-> 2, pc |-> 3]

\* C17: in every reachable state, in each order the items of a user's
\* shopping list may be returned in, two items of the same name come in the
\* order of their measurement units, so that the download has one possible
\* body.
TiesOrderedByUnit ==
    \A u \in Users :
        /\ \A ingredients \in order_by(values_annotate(
                   IngredientInRecipe_filter(Recipe, shopping_cart_all(objects, Recipe, u)))) :
               \A i, j \in 1..Len(ingredients) :
                   (i < j /\ ingredients[i].ingredient__name = ingredients[j].ingredient__name)
                       => UnitRank[ingredients[i].ingredient__measurement_unit]
                              < UnitRank[ingredients[j].ingredient__measurement_unit]
        /\ Cardinality(RecipeViewSet_download_shopping_cart(objects, Recipe, u)) = 1

----------------------------------------------------------------------------
(* Claims about the persisted short link, checked under LinkSpec *)

\* C4: a short_link is generated at most once for a recipe, and once the row
\* of a recipe holds a non-empty short_link no request changes it while the
\* recipe exists, and every get_link for the recipe returns that token.
ShortLinkWriteOnce ==
    /\ [](\A r \in DOMAIN link_writes : link_writes[r] <= 1)
    /\ [][\A r \in DOMAIN Recipe :
            Recipe[r].short_link # <<>> =>
                /\ r \in DOMAIN Recipe' => Recipe'[r].short_link = Recipe[r].short_link
                /\ response' = Resp(200, "short-link", r) =>
                        short_link' = Recipe[r].short_link]_vars

\* The legacy release has answered a get_link with the stored token of a
\* recipe, generated once, whose ingredient lines an update has replaced.
ShortLinkWriteOnceWitness ==
    /\ release = "legacy"
    /\ response = Resp(200, "short-link", 1)
    /\ 1 \in DOMAIN Recipe
    /\ Recipe[1].ingredients_in \in {data.ingredients : data \in UpdatePayloads}
    /\ Recipe[1].short_link = short_link
    /\ link_writes[1] = 1

----------------------------------------------------------------------------
(* WriteSpec: recipes are created, replaced (PUT), changed (PATCH) and      *)
(* destroyed with bodies that validate and bodies that do not.              *)

\* The bodies recipes are written with: two that validate, then bodies with
\* a repeated ingredient, a repeated tag, an empty list and a missing list.
WritePayloads ==
    { Data(<<1>>, <<Line(1, 2)>>),
      [name |-> "stew", tags |-> <<2, 1>>, ingredients |-> <<Line(2, 100), Line(1, 2)>>],
      Data(<<1>>, <<Line(1, 2), Line(1, 3)>>),
      [name |-> "stew", tags |-> <<1, 2>>,
       ingredients |-> <<Line(2, 5), Line(1, 2), Line(2, 7)>>],
      Data(<<1, 1>>, <<Line(1, 2)>>),
      Data(<<>>, <<Line(1, 2)>>),
      Data(<<1>>, <<>>),
      [name |-> "stew", ingredients |-> <<Line(1, 2)>>],
      [name |-> "stew", tags |-> <<2>>],
      [name |-> "stew"] }

WriteNext ==
    \/ \E u \in Authors, data \in WritePayloads : create(u, data)
    \/ \E u \in Authors, pk \in RecipeIds, data \in WritePayloads, partial \in BOOLEAN :
            update(u, pk, data, partial)
    \/ \E u \in Authors, pk \in RecipeIds : destroy(u, pk)

WriteSpec == Init /\ [][WriteNext]_vars

----------------------------------------------------------------------------
(* ReadSpec: recipes are created and destroyed, added to and removed from  *)
(* the lists, and read by users and by requests without credentials.       *)

\* Who reads recipes.
Readers == Users \cup {AnonymousUser}

\* ReadRecipeSerializer.get_is_in_shopping_cart, the same in both releases.
get_is_in_shopping_cart(objs, user, pk) ==
    user # AnonymousUser /\ exists(objs["ShoppingCart"], user, pk)

\* Mutant: the flag tells whether the recipe is anybody's favorite.
get_is_favorited_any(objs, user, pk) ==
    \E u \in Users : exists(objs["Favorite"], u, pk)

\* ReadRecipeSerializer.get_is_favorited, the same in both releases.
get_is_favorited(objs, user, pk) ==
    user # AnonymousUser /\ exists(objs["Favorite"], user, pk)

\* ReadRecipeSerializer: the fields of the representation that depend on who
\* reads.
ReadRecipeSerializer(objs, user, pk) ==
    [id |-> pk,
     is_favorited |-> get_is_favorited(objs, user, pk),
     is_in_shopping_cart |-> get_is_in_shopping_cart(objs, user, pk)]

\* GET /recipes/{pk}/
retrieve(user, pk) ==
    /\ user \in User \cup {AnonymousUser}
    /\ IF pk \in DOMAIN Recipe
       THEN /\ retrieved' = ReadRecipeSerializer(objects, user, pk)
            /\ response' = Resp(200, "id", pk)
       ELSE /\ response' = Resp(404, "detail", 0)
            /\ UNCHANGED retrieved
    /\ UNCHANGED <<release, db, codec, pending, shopping_list, users, listed>>

ReadNext ==
    \/ \E u \in Authors, data \in Payloads : last_id < MaxLife /\ create(u, data)
    \/ \E u \in Users, pk \in RecipeIds : destroy(u, pk)
    \/ \E u \in Users, pk \in RecipeIds : favorite(u, pk)
    \/ \E u \in Users, pk \in RecipeIds : delete_favorite(u, pk)
    \/ \E u \in Users, pk \in RecipeIds : shopping_cart(u, pk)
    \/ \E u \in Users, pk \in RecipeIds : delete_shopping_cart(u, pk)
    \/ \E u \in Users, pk \in RecipeIds, method \in {"POST", "DELETE"} :
            legacy_favorite(method, u, pk)
    \/ \E u \in Users, pk \in RecipeIds, method \in {"POST", "DELETE"} :
            legacy_shopping_cart(method, u, pk)
    \/ \E u \in Readers, pk \in RecipeIds : retrieve(u, pk)

ReadSpec == Init /\ [][ReadNext]_vars

----------------------------------------------------------------------------
(* FilterSpec: the api release; recipes are created, added to and removed   *)
(* from the lists, and listed with the filters of RecipeFilterSet.          *)

\* Recipe.objects.all(): the rows of a queryset, each with the number of
\* times the query returns it.
Recipe_objects_all(recipes) == [r \in DOMAIN recipes |-> 1]

\* queryset.filter(<list>__user=user): the join with the list table, one row
\* for each entry of the user for the recipe.
queryset_filter(table, queryset, user) ==
    [r \in {x \in DOMAIN queryset : table[<<user, x>>] > 0} |->
        queryset[r] * table[<<user, r>>]]

\* RecipeFilterSet.filter_is_in_shopping_cart
filter_is_in_shopping_cart(objs, queryset, user, value) ==
    IF is_authenticated(user) /\ value
    THEN queryset_filter(objs["ShoppingCart"], queryset, user)
    ELSE queryset

\* Mutant: the filter selects the recipes that are anybody's favorites.
filter_is_favorited_anybody(objs, queryset, user, value) ==
    IF is_authenticated(user) /\ value
    THEN [r \in {x \in DOMAIN queryset : \E u \in Users : objs["Favorite"][<<u, x>>] > 0}
             |-> queryset[r]]
    ELSE queryset

\* RecipeFilterSet.filter_is_favorited
filter_is_favorited(objs, queryset, user, value) ==
    IF is_authenticated(user) /\ value
    THEN queryset_filter(objs["Favorite"], queryset, user)
    ELSE queryset

\* The query parameters of a list request.
Params == [is_favorited : BOOLEAN, is_in_shopping_cart : BOOLEAN]

\* RecipeFilterSet applied to the queryset of the view set.
RecipeFilterSet(objs, recipes, user, params) ==
    filter_is_favorited(objs,
        filter_is_in_shopping_cart(objs, Recipe_objects_all(recipes), user,
                                   params.is_in_shopping_cart),
        user, params.is_favorited)

\* GET /recipes/?is_favorited=..&is_in_shopping_cart=..
list(user, params) ==
    /\ user \in User \cup {AnonymousUser}
    /\ listed' = RecipeFilterSet(objects, Recipe, user, params)
    /\ response' = Resp(200, "results", 0)
    /\ UNCHANGED <<release, db, codec, pending, shopping_list, users, retrieved>>

FilterNext ==
    \/ \E u \in Authors, data \in Payloads : last_id < MaxLife /\ create(u, data)
    \/ \E u \in Users, pk \in RecipeIds : favorite(u, pk)
    \/ \E u \in Users, pk \in RecipeIds : delete_favorite(u, pk)
    \/ \E u \in Users, pk \in RecipeIds : shopping_cart(u, pk)
    \/ \E u \in Users, pk \in RecipeIds : delete_shopping_cart(u, pk)
    \/ \E u \in Readers, params \in Params : list(u, params)

\* The api release starts with no recipes and empty lists.
FilterInit == Init /\ release = "api"

FilterSpec == FilterInit /\ [][FilterNext]_vars

\* The recipes that have an entry of the user in the table, each once.
WithEntry(table, user) ==
    [r \in {x \in DOMAIN Recipe : table[<<user, x>>] > 0} |-> 1]

\* C23: in every reachable state, the filter is_favorited (is_in_shopping_cart)
\* asked for with true by an authenticated user returns exactly the recipes
\* with a favorites (cart) entry of that user, each once; asked for with
\* false, or by a request without credentials, it returns the queryset as it
\* was given.
FilterSelectsOwnEntries ==
    \A u \in User \cup {AnonymousUser}, value \in BOOLEAN :
        LET queryset == Recipe_objects_all(Recipe)
            favorited == filter_is_favorited(objects, queryset, u, value)
            in_cart == filter_is_in_shopping_cart(objects, queryset, u, value)
        IN  IF u \in User /\ value
            THEN /\ favorited = WithEntry(objects["Favorite"], u)
                 /\ in_cart = WithEntry(objects["ShoppingCart"], u)
            ELSE favorited = queryset /\ in_cart = queryset

\* A list request with a filter has returned no recipe while the recipe is
\* the favorite of one user and in the cart of the other.
FilterSelectsOwnEntriesWitness ==
    /\ response = Resp(200, "results", 0)
    /\ DOMAIN listed = {}
    /\ 1 \in DOMAIN Recipe
    /\ objects["Favorite"][<<"alice", 1>>] = 1 /\ objects["Favorite"][<<"bob", 1>>] = 0
    /\ objects["ShoppingCart"][<<"bob", 1>>] = 1 /\ objects["ShoppingCart"][<<"alice", 1>>] = 0

----------------------------------------------------------------------------
(* Subscriptions *)

\* The 400 bodies of a rejected subscription, named by their message.
SelfFollow == Resp(400, "self_follow", 0)
AlreadySubscribed == Resp(400, "already_subscribed", 0)

\* Subscriptions.objects.filter(follower=follower, following=following)
\* .exists()
subscribed(table, follower, following) == table[<<follower, following>>] > 0

\* Mutant: the validation without the test for a subscription to oneself.
SubscriptionCreateSerializer_validate_any(table, follower, following) ==
    IF subscribed(table, follower, following) THEN AlreadySubscribed.key
    ELSE ""

\* SubscriptionCreateSerializer.validate (api): the message of the
\* ValidationError raised, "" when the data is valid.
SubscriptionCreateSerializer_validate(table, follower, following) ==
    IF follower = following THEN SelfFollow.key
    ELSE IF subscribed(table, follower, following) THEN AlreadySubscribed.key
    ELSE ""

\* Mutant: the validation without the test for a stored subscription.
SubscriptionsSerializer_validate_again(table, follower, following) ==
    IF follower = following THEN SelfFollow.key
    ELSE ""

\* SubscriptionsSerializer.validate (legacy): the same two tests, the stored
\* subscription looked for first.
SubscriptionsSerializer_validate(table, follower, following) ==
    IF subscribed(table, follower, following) THEN AlreadySubscribed.key
    ELSE IF follower = following THEN SelfFollow.key
    ELSE ""

\* Subscriptions.objects.create / serializer.save(): the insert under the
\* constraints unique_follower_following and user_cant_self_follow, either of
\* which makes it raise IntegrityError.
Subscriptions_objects_create(table, follower, following) ==
    IF table[<<follower, following>>] > 0 \/ follower = following
    THEN [err |-> TRUE, table |-> table]
    ELSE [err |-> FALSE, table |-> [table EXCEPT ![<<follower, following>>] = @ + 1]]

\* CustomUserViewSet.subscribe, POST: get_object_or_404 on the author, the
\* validation of the release, the insert.
subscribe_post(rel, existing, table, user, id) ==
    IF id \notin existing THEN [table |-> table, response |-> Resp(404, "detail", 0)]
    ELSE LET e == IF rel = "api"
                  THEN SubscriptionCreateSerializer_validate(table, user, id)
                  ELSE SubscriptionsSerializer_validate(table, user, id)
             c == Subscriptions_objects_create(table, user, id)
         IN  IF e # "" THEN [table |-> table, response |-> Resp(400, e, 0)]
             ELSE IF c.err THEN [table |-> table, response |-> Resp(500, "IntegrityError", 0)]
             ELSE [table |-> c.table, response |-> Resp(201, "is_subscribed", 0)]

\* Mutant: an unsubscribe that reports success whether or not a subscription
\* was stored.
subscribe_delete_silent(rel, existing, table, user, id) ==
    IF id \notin existing THEN [table |-> table, response |-> Resp(404, "detail", 0)]
    ELSE [table |-> [table EXCEPT ![<<user, id>>] = 0], response |-> Resp(204, "", 0)]

\* CustomUserViewSet.delete_subscribe (api) and the DELETE branch of subscribe
\* (legacy): both answer 404 for an author that does not exist, 400 when no
\* subscription is stored, and delete the rows of the pair otherwise.
subscribe_delete(rel, existing, table, user, id) ==
    IF id \notin existing THEN [table |-> table, response |-> Resp(404, "detail", 0)]
    ELSE IF ~subscribed(table, user, id)
         THEN [table |-> table, response |-> Resp(400, "errors", 0)]
         ELSE [table |-> [table EXCEPT ![<<user, id>>] = 0], response |-> Resp(204, "", 0)]

\* A request on /users/{id}/subscribe/ served by the release `rel`.
subscribe_request(rel, method, existing, table, user, id) ==
    IF method = "POST" THEN subscribe_post(rel, existing, table, user, id)
    ELSE subscribe_delete(rel, existing, table, user, id)

----------------------------------------------------------------------------
(* LifeSpec: users write recipes, add them to their lists and subscribe to  *)
(* each other; recipes are destroyed and users are deleted in the admin.    *)

\* Mutant: the list entries of a deleted user stay.
cascade_user_kept(objs, user) == objs

\* on_delete=CASCADE of the user foreign key of both list models.
cascade_user(objs, user) ==
    [m \in Models |-> [p \in DOMAIN objs[m] |-> IF p[1] = user THEN 0 ELSE objs[m][p]]]

\* on_delete=CASCADE of Recipe.author: the recipes deleted with their author.
recipes_of(recipes, user) == {r \in DOMAIN recipes : recipes[r].author = user}

\* on_delete=CASCADE of the recipe foreign key, for each recipe of `pks`.
RECURSIVE cascade_recipes(_, _)
cascade_recipes(objs, pks) ==
    IF pks = {} THEN objs
    ELSE LET pk == CHOOSE r \in pks : TRUE
         IN  cascade_recipes(cascade_recipe(objs, pk), pks \ {pk})

\* on_delete=CASCADE of Subscriptions.follower and Subscriptions.following.
cascade_subscriptions(table, user) ==
    [p \in DOMAIN table |-> IF p[1] = user \/ p[2] = user THEN 0 ELSE table[p]]

\* The deletion of a user and everything the cascades delete with it.
User_delete(existing, recipes, objs, table, user) ==
    LET gone == recipes_of(recipes, user)
    IN  [User          |-> existing \ {user},
         Recipe        |-> [r \in DOMAIN recipes \ gone |-> recipes[r]],
         objects       |-> cascade_user(cascade_recipes(objs, gone), user),
         Subscriptions |-> cascade_subscriptions(table, user)]

\* CustomUserAdmin: a user is deleted in the admin.
CustomUserAdmin_delete(user) ==
    /\ user \in User
    /\ LET done == User_delete(User, Recipe, objects, Subscriptions, user)
       IN  /\ User' = done.User
           /\ Recipe' = done.Recipe
           /\ objects' = done.objects
           /\ Subscriptions' = done.Subscriptions
    /\ UNCHANGED <<release, last_id, response, codec, link_writes, pending,
                   shopping_list, retrieved, listed>>

\* A request on /users/{id}/subscribe/ is served and answered.
ServeSubscribe(method, user, id) ==
    /\ user \in User
    /\ LET done == subscribe_request(release, method, User, Subscriptions, user, id)
       IN  /\ Subscriptions' = done.table
           /\ response' = done.response
    /\ UNCHANGED <<release, db, codec, link_writes, pending, shopping_list, User, retrieved, listed>>

\* POST /users/{id}/subscribe/ (api)
subscribe(user, id) ==
    release = "api" /\ ServeSubscribe("POST", user, id)

\* DELETE /users/{id}/subscribe/ (api)
delete_subscribe(user, id) ==
    release = "api" /\ ServeSubscribe("DELETE", user, id)

\* POST and DELETE /users/{id}/subscribe/ (legacy)
legacy_subscribe(method, user, id) ==
    release = "legacy" /\ ServeSubscribe(method, user, id)

LifeNext ==
    \/ \E u \in Users, data \in Payloads : last_id < MaxLife /\ create(u, data)
    \/ \E u \in Users, pk \in RecipeIds : destroy(u, pk)
    \/ \E u \in Users, pk \in RecipeIds : favorite(u, pk)
    \/ \E u \in Users, pk \in RecipeIds : shopping_cart(u, pk)
    \/ \E u \in Users, pk \in RecipeIds : legacy_favorite("POST", u, pk)
    \/ \E u \in Users, pk \in RecipeIds : legacy_shopping_cart("POST", u, pk)
    \/ \E u \in Users, id \in Users : subscribe(u, id)
    \/ \E u \in Users, id \in Users : delete_subscribe(u, id)
    \/ \E u \in Users, id \in Users, method \in {"POST", "DELETE"} :
            legacy_subscribe(method, u, id)
    \/ \E u \in Users : CustomUserAdmin_delete(u)

LifeSpec == Init /\ [][LifeNext]_vars

----------------------------------------------------------------------------
(* Claims about subscriptions and deletions, checked under LifeSpec *)

\* C11: in every reachable state, whatever subscriptions are stored, a
\* subscribe request of a user to themselves is answered with the 400 of the
\* self-subscription check and leaves the subscriptions unchanged, and no
\* subscription with follower = following is stored.
SelfSubscriptionRejected ==
    /\ \A u \in Users : Subscriptions[<<u, u>>] = 0
    /\ \A u \in User :
           LET done == subscribe_request(release, "POST", User, Subscriptions, u, u)
           IN  /\ done.response = SelfFollow
               /\ done.table = Subscriptions

\* A subscription to oneself has been rejected while another subscription is
\* stored.
SelfSubscriptionRejectedWitness ==
    /\ response = SelfFollow
    /\ \E p \in DOMAIN Subscriptions : Subscriptions[p] = 1

\* C12: in every reachable state each (follower, following) pair has at most
\* one subscription, and a subscribe request for a pair that is already
\* stored is answered with the 400 Conflict and leaves the subscriptions
\* unchanged.
OneSubscriptionPerPair ==
    /\ \A p \in DOMAIN Subscriptions : Subscriptions[p] <= 1
    /\ \A u \in User, id \in User :
           subscribed(Subscriptions, u, id) =>
               LET done == subscribe_request(release, "POST", User, Subscriptions, u, id)
               IN  /\ done.response = AlreadySubscribed
                   /\ done.table = Subscriptions

\* A second subscription to the same user has been rejected, the first still
\* stored once.
OneSubscriptionPerPairWitness ==
    /\ response = AlreadySubscribed
    /\ \E u \in User, id \in User : u # id /\ Subscriptions[<<u, id>>] = 1

\* C24: in every reachable state, an unsubscribe from a user one is not
\* subscribed to is answered with an error (400, or 404 if that user does not
\* exist) and leaves the subscriptions unchanged; an unsubscribe from a user
\* one is subscribed to is answered 204 and removes the subscription of that
\* (follower, following) pair and no other.
UnsubscribeAbsentIsError ==
    \A u \in User, id \in Users :
        LET done == subscribe_request(release, "DELETE", User, Subscriptions, u, id)
        IN  IF id \in User /\ Subscriptions[<<u, id>>] > 0
            THEN /\ done.response = Resp(204, "", 0)
                 /\ done.table = [Subscriptions EXCEPT ![<<u, id>>] = 0]
            ELSE /\ done.response \in {Resp(400, "errors", 0), Resp(404, "detail", 0)}
                 /\ done.table = Subscriptions

\* An unsubscribe from a user not subscribed to has been answered with the
\* error while the subscription in the other direction is stored.
UnsubscribeAbsentIsErrorWitness ==
    /\ response = Resp(400, "errors", 0)
    /\ \E p \in DOMAIN Subscriptions : Subscriptions[p] = 1

\* C20: in every reachable state every favorite and every cart entry is of
\* an existing user and an existing recipe, every subscription is between
\* existing users, every recipe has an existing author and its ingredient
\* lines name existing ingredients; so no entry outlives the recipe or the
\* user it refers to.
NoDanglingReference ==
    /\ \A m \in Models, p \in Users \X RecipeIds :
           objects[m][p] > 0 => p[1] \in User /\ p[2] \in DOMAIN Recipe
    /\ \A p \in Users \X Users :
           Subscriptions[p] > 0 => p[1] \in User /\ p[2] \in User
    /\ \A r \in DOMAIN Recipe :
           /\ Recipe[r].author \in User
           /\ \A n \in DOMAIN Recipe[r].ingredients_in :
                  Recipe[r].ingredients_in[n].id \in DOMAIN Ingredient

\* bob subscribed to alice, who had written the only recipe, and alice has
\* been deleted: her recipe is gone with her.
NoDanglingReferenceWitness ==
    /\ User = {"bob"}
    /\ last_id = 1 /\ DOMAIN Recipe = {}
    /\ response = Resp(201, "is_subscribed", 0)

----------------------------------------------------------------------------
(* PermSpec: both users write recipes; they and requests without            *)
(* credentials read, update and destroy them.                               *)

PermNext ==
    \/ \E u \in Readers, data \in Payloads : last_id < MaxLife /\ create(u, data)
    \/ \E u \in Readers, pk \in RecipeIds, data \in UpdatePayloads, partial \in BOOLEAN :
            update(u, pk, data, partial)
    \/ \E u \in Readers, pk \in RecipeIds : destroy(u, pk)
    \/ \E u \in Readers, pk \in RecipeIds : retrieve(u, pk)
    \/ \E pk \in RecipeIds : get_link(pk)

PermSpec == Init /\ [][PermNext]_vars

----------------------------------------------------------------------------
(* Claims about recipe writes, checked under WriteSpec *)

\* The body lists the same ingredient id more than once.
RepeatsIngredient(data) ==
    /\ "ingredients" \in DOMAIN data
    /\ \E i, j \in DOMAIN data.ingredients :
           i # j /\ data.ingredients[i].id = data.ingredients[j].id

\* C13: in every reachable state, a create, a full update or a partial update
\* whose body lists the same ingredient id more than once fails validation,
\* which runs before anything is saved: it is answered 400 and no recipe
\* row, tag link or ingredient line is created, changed or deleted.
DuplicateIngredientRejected ==
    \A data \in WritePayloads : RepeatsIngredient(data) =>
        /\ \A partial \in BOOLEAN :
               WriteRecipeSerializer_is_valid(release, data, partial) # ""
        /\ \A u \in Authors :
               LET done == RecipeViewSet_create(release, Recipe, last_id, u, data)
               IN  /\ done.response.status = 400
                   /\ done.Recipe = Recipe
                   /\ done.last_id = last_id
                   /\ done.generated = 0
        /\ \A pk \in DOMAIN Recipe, partial \in BOOLEAN :
               LET done == RecipeViewSet_update(release, Recipe, pk, data, partial)
               IN  /\ done.response.status = 400
                   /\ done.Recipe = Recipe
                   /\ done.generated = 0

\* A write with a repeated ingredient has been rejected while a recipe is
\* stored.
DuplicateIngredientRejectedWitness ==
    /\ response = Resp(400, "ingredients_repeat", 0)
    /\ DOMAIN Recipe # {}

\* The tag list or the ingredient list of the body is missing or empty, or
\* the tag list repeats a tag.
Incomplete(data) ==
    \/ "tags" \notin DOMAIN data
    \/ "ingredients" \notin DOMAIN data
    \/ data.tags = <<>>
    \/ data.ingredients = <<>>
    \/ \E i, j \in DOMAIN data.tags : i # j /\ data.tags[i] = data.tags[j]

\* C14: in every reachable state, a create, a full update and a partial
\* update whose body has no tags, no ingredients or a repeated tag are all
\* answered with the 400 of a ValidationError and leave the recipes as they
\* are.
IncompleteWriteRejected ==
    \A data \in WritePayloads : Incomplete(data) =>
        /\ \A u \in Authors :
               LET done == RecipeViewSet_create(release, Recipe, last_id, u, data)
               IN  done.response.status = 400 /\ done.Recipe = Recipe
        /\ \A pk \in DOMAIN Recipe, partial \in BOOLEAN :
               LET done == RecipeViewSet_update(release, Recipe, pk, data, partial)
               IN  done.response.status = 400 /\ done.Recipe = Recipe

\* A partial update that carries no tags or no ingredients has been rejected
\* by a release, the recipe still stored.
IncompleteWriteRejectedWitness ==
    /\ response \in {Resp(400, "incomplete", 0), Resp(400, "tags_empty", 0)}
    /\ DOMAIN Recipe # {}

\* C27: in every reachable state every recipe has at least one tag, at
\* least one ingredient line and no two lines for the same ingredient, and a
\* full or partial update that is answered 200 leaves the recipe with exactly
\* the lines and the tags of its body.
RecipeKeepsTagsAndDistinctLines ==
    /\ \A r \in DOMAIN Recipe :
          /\ Recipe[r].tags # {}
          /\ Len(Recipe[r].ingredients_in) >= 1
          /\ ~has_duplicates(ingredient_ids(Recipe[r].ingredients_in))
    /\ \A pk \in DOMAIN Recipe, data \in WritePayloads, partial \in BOOLEAN :
          LET done == RecipeViewSet_update(release, Recipe, pk, data, partial)
          IN  done.response.status = 200 =>
                /\ done.Recipe[pk].ingredients_in = data.ingredients
                /\ done.Recipe[pk].tags = Range(data.tags)

\* An update has replaced the one line of a recipe by two lines, the first
\* for another ingredient, and its one tag by two.
RecipeKeepsTagsAndDistinctLinesWitness ==
    /\ response = Resp(200, "id", 1)
    /\ 1 \in DOMAIN Recipe
    /\ Recipe[1].ingredients_in = <<Line(2, 100), Line(1, 2)>>
    /\ Recipe[1].tags = {1, 2}

\* C28: in every reachable state, a full or partial update that is answered
\* with the 400 of a ValidationError leaves the name, the tags and the lines
\* of every recipe as they were, also where the error is raised after the
\* serializer has saved the name.
FailedUpdateChangesNothing ==
    \A pk \in DOMAIN Recipe, data \in WritePayloads, partial \in BOOLEAN :
        LET done == RecipeViewSet_update(release, Recipe, pk, data, partial)
        IN  done.response.status = 400 => done.Recipe = Recipe /\ done.generated = 0

\* The legacy release has answered a partial update with the error its
\* update raises after the save, and the recipe has the name it was created
\* with, which no body of a partial update that fails so carries.
FailedUpdateChangesNothingWitness ==
    /\ release = "legacy"
    /\ response = Resp(400, "incomplete", 0)
    /\ 1 \in DOMAIN Recipe
    /\ Recipe[1].name = "soup"
    /\ link_writes[1] = 0

\* C22: no step changes a field of a recipe that exists before and after it,
\* other than its short_link.
RecipeImmutable ==
    [][\A r \in DOMAIN Recipe \cap DOMAIN Recipe' :
           [Recipe'[r] EXCEPT !.short_link = Recipe[r].short_link] = Recipe[r]]_vars

----------------------------------------------------------------------------
(* Claims about the representation of a recipe, checked under ReadSpec *)

\* C19: in every reachable state, whatever adds and removes led to it, the
\* representation of a recipe read by an authenticated user reports
\* is_favorited and is_in_shopping_cart as the (user, recipe) entry exists in
\* the favorites and in the cart table at that moment, and read without an
\* authenticated user it reports both as false.
FlagsAreCurrentMembership ==
    \A pk \in DOMAIN Recipe :
        /\ \A u \in User :
               LET data == ReadRecipeSerializer(objects, u, pk)
               IN  /\ data.is_favorited = (objects["Favorite"][<<u, pk>>] > 0)
                   /\ data.is_in_shopping_cart = (objects["ShoppingCart"][<<u, pk>>] > 0)
        /\ LET data == ReadRecipeSerializer(objects, AnonymousUser, pk)
           IN  ~data.is_favorited /\ ~data.is_in_shopping_cart

\* A recipe was read as a favorite that is not in the cart, and has since
\* been removed from the favorites of every user.
FlagsAreCurrentMembershipWitness ==
    /\ retrieved.id \in DOMAIN Recipe
    /\ retrieved.is_favorited /\ ~retrieved.is_in_shopping_cart
    /\ \A u \in Users : objects["Favorite"][<<u, retrieved.id>>] = 0
    /\ response = Resp(204, "", 0)

----------------------------------------------------------------------------
(* Claims about membership, checked under Spec *)

\* C7: in every reachable state, an add of a pair that is not in the list (for
\* a recipe that exists) returns Created and inserts the entry, and the same
\* add made again right after it returns the 400 Conflict and leaves the
\* stored entries as the first add left them.
AddTwiceInSequence ==
    \A m \in Models, u \in Users, pk \in DOMAIN Recipe :
        ~exists(objects[m], u, pk) =>
            LET first  == list_request(release, "POST", objects, Recipe, m, u, pk)
                second == list_request(release, "POST", first.objects, Recipe, m, u, pk)
            IN  /\ first.response = Resp(201, "id", pk)
                /\ first.objects = [objects EXCEPT ![m][<<u, pk>>] = 1]
                /\ second.response \in Conflict
                /\ second.objects = first.objects

\* The second of two adds in sequence has been answered with Conflict, the
\* entry of the first still stored once.
AddTwiceWitness ==
    /\ response \in Conflict
    /\ \E m \in Models, u \in Users, pk \in DOMAIN Recipe : objects[m][<<u, pk>>] = 1

\* C30: in every reachable state, for a pair that is not in the list (of a
\* recipe that exists), an add answered Created followed by a remove answered
\* 204 leaves the entries of every list exactly as they were before the add,
\* and the add made again after them is answered Created again.
AddRemoveRestores ==
    \A m \in Models, u \in Users, pk \in DOMAIN Recipe :
        ~exists(objects[m], u, pk) =>
            LET added   == list_request(release, "POST", objects, Recipe, m, u, pk)
                removed == list_request(release, "DELETE", added.objects, Recipe, m, u, pk)
                again   == list_request(release, "POST", removed.objects, Recipe, m, u, pk)
            IN  /\ added.response = Resp(201, "id", pk)
                /\ added.objects # objects
                /\ removed.response = Resp(204, "", 0)
                /\ removed.objects = objects
                /\ again.response = Resp(201, "id", pk)
                /\ again.objects = added.objects

\* A removal has been answered 204 and has left every list empty; no recipe
\* has been destroyed, so the entry it removed had been added before.
AddRemoveRestoresWitness ==
    /\ response = Resp(204, "", 0)
    /\ last_id >= 1
    /\ DOMAIN Recipe = 1..last_id
    /\ objects = [m \in Models |-> EmptyTable]

\* C8: in every reachable state, removing a pair that is not in the list
\* yields an error response (400, or 404 when the recipe itself does not
\* exist) and leaves every stored entry unchanged; removing a pair that is in
\* the list deletes exactly that entry.
RemoveAbsentIsError ==
    \A m \in Models, u \in Users, pk \in RecipeIds :
        LET done == list_request(release, "DELETE", objects, Recipe, m, u, pk)
        IN  IF pk \in DOMAIN Recipe /\ exists(objects[m], u, pk)
            THEN /\ done.response = Resp(204, "", 0)
                 /\ done.objects = [objects EXCEPT ![m][<<u, pk>>] = 0]
            ELSE /\ done.response \in {Resp(400, "errors", 0), Resp(404, "detail", 0)}
                 /\ done.objects = objects

\* A removal of a pair that is not in the list of an existing recipe has been
\* answered with the error, an entry of another pair still stored.
RemoveAbsentWitness ==
    /\ response = Resp(400, "errors", 0)
    /\ \E m \in Models, u \in Users, pk \in DOMAIN Recipe : objects[m][<<u, pk>>] = 1

\* C18: in every reachable state, an add or a remove of user u for recipe pk
\* on one list leaves every entry of the other list, and every entry of the
\* list itself other than that of (u, pk), as it was.
OnlyOwnEntryChanges ==
    \A m \in Models, u \in Users, pk \in RecipeIds, method \in {"POST", "DELETE"} :
        LET done == list_request(release, method, objects, Recipe, m, u, pk)
        IN  \A n \in Models, p \in Users \X RecipeIds :
                (n # m \/ p # <<u, pk>>) => done.objects[n][p] = objects[n][p]

\* alice has removed the only recipe from her favorites; it is still bob's
\* favorite and in both carts.
OnlyOwnEntryChangesWitness ==
    /\ last_id = 1 /\ 1 \in DOMAIN Recipe
    /\ response = Resp(204, "", 0)
    /\ objects["Favorite"][<<"alice", 1>>] = 0
    /\ objects["Favorite"][<<"bob", 1>>] = 1
    /\ objects["ShoppingCart"][<<"alice", 1>>] = 1
    /\ objects["ShoppingCart"][<<"bob", 1>>] = 1

\* C25: in every reachable state, a recipe whose row holds a short_link holds
\* the encoding of its own id, and resolving that token redirects to that
\* recipe; the token get_link returns for a recipe resolves to that recipe,
\* and it is the token the row holds afterwards.
StoredLinkResolvesToRecipe ==
    \A r \in DOMAIN Recipe :
          /\ Recipe[r].short_link # <<>> =>
                /\ Recipe[r].short_link = Recipe_get_short_link(r)
                /\ RecipeShortLinkView_get(Recipe[r].short_link, Recipe).response
                        = Resp(302, "", r)
          /\ LET got == RecipeViewSet_get_link(release, r, Recipe[r])
             IN  /\ RecipeShortLinkView_get(got.token, [Recipe EXCEPT ![r] = got.row]).response
                        = Resp(302, "", r)
                 /\ got.row.short_link = got.token

\* The legacy release has answered a get_link for the second recipe with the
\* encoding of its id, now stored, while the first recipe has no token yet.
StoredLinkResolvesToRecipeWitness ==
    /\ release = "legacy"
    /\ response = Resp(200, "short-link", 2)
    /\ DOMAIN Recipe = {1, 2}
    /\ Recipe[1].short_link = <<>>
    /\ Recipe[2].short_link = short_link
    /\ short_link = Recipe_get_short_link(2)

----------------------------------------------------------------------------
(* Claims about the codec, checked under CodecSpec *)

\* C15: whenever a token has been resolved that decoded to an integer which
\* is the id of no recipe, the response is a 4xx: not a redirect and not a
\* server fault.
MissingRecipeIsClientError ==
    (phase = "done" /\ looked_up # {} /\ looked_up \cap DOMAIN Recipe = {}) =>
        response.status \in 400..499

\* The token of an id beyond the stored recipes has been resolved and
\* answered 404.
MissingRecipeIsClientErrorWitness ==
    /\ phase = "done"
    /\ recipe_id > MaxStored
    /\ looked_up = {recipe_id}
    /\ response = Resp(404, "detail", 0)

\* C1: for every positive recipe id n, resolving the token produced by encoding
\* n decodes to exactly n: the id looked up is n itself.
RoundTrip ==
    (phase = "done" /\ recipe_id > 0) => looked_up = {recipe_id}

\* A three-digit id (an unpadded token) has made the round trip.
RoundTripWitness ==
    phase = "done" /\ recipe_id >= 100 /\ looked_up = {recipe_id}

\* The token is the url-safe base64 of a text int() reads as an integer: it
\* decodes, the decoded bytes encode back to the very same token, and the bytes
\* are UTF-8 text that int() accepts.
IsIntegerToken(t) ==
    LET raw  == urlsafe_b64decode(t)
        text == IF raw.err THEN ValueError ELSE utf8_decode(raw.val, 1, <<>>)
    IN  /\ ~raw.err
        /\ urlsafe_b64encode(raw.val) = t
        /\ ~text.err
        /\ ~int(text.val).err

\* C2: resolving a token that is not the url-safe base64 of a base-10 integer
\* ends in the DecodeError outcome, the 400 response with an {"error": ...}
\* body, never in a redirect or a fault.
MalformedTokenIsDecodeError ==
    (phase = "done" /\ recipe_id = 0 /\ ~IsIntegerToken(short_link))
        => response = Resp(400, "error", 0)

\* C26: resolution accepts canonical tokens only: whenever resolving a token
\* has ended in the redirect to recipe n, the token is the encoding of n.
OnlyCanonicalTokenRedirects ==
    (phase = "done" /\ response.status = 302) =>
        short_link = Recipe_get_short_link(response.recipe)

\* C3: decode yields a positive integer or DecodeError: a payload that parses to
\* zero or to a negative integer is answered with the 400 DecodeError body and
\* is never passed on as a recipe id.
DecodeIsPositiveOrError ==
    phase = "done" =>
        \/ response = Resp(400, "error", 0) /\ looked_up = {}
        \/ looked_up # {} /\ \A n \in looked_up : n > 0

====
